---- MODULE Spec2Model ----
(***************************************************************************)
(* dodgem: bump the version found in the most recent git tag and patch it  *)
(* into package.py.  The model follows src/main.rs: the Version type with  *)
(* its parser, bumpers and formatter, and the linear procedure `bumper`,   *)
(* one action per statement group, run against a small repository.         *)
(*                                                                         *)
(* Text (tag names, version strings, file content) is a sequence of        *)
(* one-character strings, so that parsing and formatting are computed.     *)
(***************************************************************************)
EXTENDS Integers, Sequences, FiniteSets, TLC

\* ------------------------------------------------------------------ bounds

\* Largest number of commits in a modelled repository.
MaxCommits == 3
\* Number of consecutive invocations of the tool on the same repository.
MaxRuns == 2

\* ------------------------------------------------------- program constants

\* i32::MAX and i32::MIN, the range of Version's fields (main.rs:8-10).
I32Max == 2147483647
I32Min == (-I32Max) - 1

\* ------------------------------------------------------------------- text

AsciiDigits == <<"0", "1", "2", "3", "4", "5", "6", "7", "8", "9">>

IsAsciiDigit(c) == \E i \in 1..Len(AsciiDigits) : AsciiDigits[i] = c

DigitVal(c) == (CHOOSE i \in 1..Len(AsciiDigits) : AsciiDigits[i] = c) - 1

\* A decimal digit outside ASCII (ARABIC-INDIC DIGIT THREE), one character.
ArabicThree == "U+0663"

\* \d of the regex crate: Unicode class Nd, which is wider than ASCII 0-9.
IsRegexDigit(c) == IsAsciiDigit(c) \/ c = ArabicThree

\* Length of the longest run of \d characters of s starting at position i.
RECURSIVE DigitRun(_, _)
DigitRun(s, i) ==
    IF i <= Len(s) /\ IsRegexDigit(s[i]) THEN 1 + DigitRun(s, i + 1) ELSE 0

\* The three groups captured when `-(\d+)\.(\d+)\.(\d+)` matches at the
\* hyphen at position h; ok is FALSE when it does not match there.
GroupsAt(s, h) ==
    LET a  == h + 1
        n1 == DigitRun(s, a)
        b  == a + n1 + 1
        n2 == DigitRun(s, b)
        c  == b + n2 + 1
        n3 == DigitRun(s, c)
    IN  IF /\ h <= Len(s) /\ s[h] = "-"
           /\ n1 > 0 /\ a + n1 <= Len(s) /\ s[a + n1] = "."
           /\ n2 > 0 /\ b + n2 <= Len(s) /\ s[b + n2] = "."
           /\ n3 > 0
        THEN [ok |-> TRUE,
              g1 |-> SubSeq(s, a, a + n1 - 1),
              g2 |-> SubSeq(s, b, b + n2 - 1),
              g3 |-> SubSeq(s, c, c + n3 - 1)]
        ELSE [ok |-> FALSE]

\* Regex `.*-(\d+)\.(\d+)\.(\d+)`, unanchored: the greedy `.*` settles on the
\* last hyphen after which the three groups match.
Captures(s) ==
    LET hs == {h \in 1..Len(s) : GroupsAt(s, h).ok}
    IN  IF hs = {} THEN [ok |-> FALSE]
        ELSE GroupsAt(s, CHOOSE h \in hs : \A k \in hs : k <= h)

\* str::parse::<i32> on the text of a group: ASCII digits only, each step a
\* checked multiply and add, so a value above i32::MAX is an error.
RECURSIVE ParseAcc(_, _, _)
ParseAcc(ds, i, acc) ==
    IF i > Len(ds) THEN [ok |-> TRUE, val |-> acc]
    ELSE IF ~IsAsciiDigit(ds[i]) THEN [ok |-> FALSE]
    ELSE IF acc > I32Max \div 10 THEN [ok |-> FALSE]
    ELSE IF acc * 10 > I32Max - DigitVal(ds[i]) THEN [ok |-> FALSE]
    ELSE ParseAcc(ds, i + 1, acc * 10 + DigitVal(ds[i]))

match_to_int(ds) == ParseAcc(ds, 1, 0)

\* Display of a non-negative integer: decimal, no leading zeros.
RECURSIVE FmtNat(_)
FmtNat(n) ==
    IF n < 10 THEN <<AsciiDigits[n + 1]>>
    ELSE FmtNat(n \div 10) \o <<AsciiDigits[(n % 10) + 1]>>

\* Display of an i32: a minus sign and the magnitude when negative.  The
\* magnitude of i32::MIN is not an i32, so its last digit is split off first.
FmtI32(n) ==
    IF n >= 0 THEN FmtNat(n)
    ELSE LET last == (10 - (n % 10)) % 10
             rest == -((n + last) \div 10)
         IN  <<"-">> \o (IF rest = 0 THEN <<>> ELSE FmtNat(rest))
                     \o <<AsciiDigits[last + 1]>>

\* ---------------------------------------------------------------- Version

\* Version::parse_tag: why records whether the regex did not match (the
\* unwrap of line 16 panics) or a group did not parse (an Err is returned).
parse_tag(name) ==
    LET m == Captures(name)
    IN  IF ~m.ok THEN [ok |-> FALSE, why |-> "NoMatch"]
        ELSE LET a == match_to_int(m.g1)
                 b == match_to_int(m.g2)
                 c == match_to_int(m.g3)
             IN  IF a.ok /\ b.ok /\ c.ok
                 THEN [ok |-> TRUE,
                       v |-> [major |-> a.val, minor |-> b.val, patch |-> c.val]]
                 ELSE [ok |-> FALSE, why |-> "ParseInt"]

\* x + 1 on i32 without overflow checks: two's complement wrap-around.
WrappingInc(x) == IF x = I32Max THEN I32Min ELSE x + 1

bump_major(v) == [major |-> WrappingInc(v.major), minor |-> 0, patch |-> 0]

bump_minor(v) == [major |-> v.major, minor |-> WrappingInc(v.minor), patch |-> 0]

bump_patch(v) == [major |-> v.major, minor |-> v.minor, patch |-> WrappingInc(v.patch)]

BumpTypes == {"major", "minor", "patch"}

\* The match on bump_type of lines 111-115.
Bumped(v, kind) ==
    CASE kind = "major" -> bump_major(v)
      [] kind = "minor" -> bump_minor(v)
      [] kind = "patch" -> bump_patch(v)

\* The component the `+ 1` of the chosen bump is applied to.
BumpedField(v, kind) ==
    CASE kind = "major" -> v.major
      [] kind = "minor" -> v.minor
      [] kind = "patch" -> v.patch

\* With overflow checks compiled in (the debug profile) `+ 1` on i32::MAX
\* panics instead of wrapping.
BumpOverflows(v, kind) == BumpedField(v, kind) = I32Max

\* Mutant: the last two fields printed in the wrong order.
version_str_swapped(v) ==
    FmtI32(v.major) \o <<".">> \o FmtI32(v.patch) \o <<".">> \o FmtI32(v.minor)

version_str(v) ==
    FmtI32(v.major) \o <<".">> \o FmtI32(v.minor) \o <<".">> \o FmtI32(v.patch)

\* str::replace: every match of from, found left to right without overlap,
\* becomes to; here from is a version string and never empty.
MatchAt(s, i, from) ==
    /\ i + Len(from) - 1 <= Len(s)
    /\ SubSeq(s, i, i + Len(from) - 1) = from

RECURSIVE ReplaceFrom(_, _, _, _)
ReplaceFrom(s, i, from, to) ==
    IF i > Len(s) THEN <<>>
    ELSE IF MatchAt(s, i, from)
         THEN to \o ReplaceFrom(s, i + Len(from), from, to)
         ELSE <<s[i]>> \o ReplaceFrom(s, i + 1, from, to)

\* Mutant: only the first match is replaced (replacen with a count of 1).
ReplaceFirst(s, from, to) ==
    LET at == {i \in 1..Len(s) : MatchAt(s, i, from)}
    IN  IF at = {} THEN s
        ELSE LET i == CHOOSE k \in at : \A m \in at : k <= m
             IN  SubSeq(s, 1, i - 1) \o to \o SubSeq(s, i + Len(from), Len(s))

Replace(s, from, to) == ReplaceFrom(s, 1, from, to)

\* ------------------------------------------------------------- repository

\* Option<T> is a sequence of length 0 (None) or 1 (Some).
None == <<>>
Some(v) == <<v>>

\* package.py on disk or in the index: text, bytes that are not UTF-8,
\* or no such file / no such index entry.
Text(t) == [kind |-> "text", text |-> t]
Binary == [kind |-> "binary", text |-> <<>>]
Absent == [kind |-> "absent", text |-> <<>>]

\* Commits are 1..n, parents have smaller ids, and HEAD is at commit n.
HeadCommit(r) == r.n

\* push_head: the walk covers the commits reachable from HEAD.
RECURSIVE ReachFrom(_, _)
ReachFrom(r, front) ==
    LET more == front \cup UNION {r.parents[c] : c \in front}
    IN  IF more = front THEN front ELSE ReachFrom(r, more)

\* Mutant: the walk is started from every commit, not from HEAD alone.
WalkListAll(r) == 1..r.n

WalkList(r) == ReachFrom(r, {HeadCommit(r)})

\* Mutant: Sort::TIME alone, a commit is ready once one child was returned.
WalkReadyTimeOnly(r, done) ==
    {c \in WalkList(r) \ done :
        c = HeadCommit(r) \/ \E d \in done : c \in r.parents[d]}

\* Sort::TOPOLOGICAL | Sort::TIME: of the commits not yet returned, one all
\* of whose children were returned, the latest commit time first; equal times
\* fall in the queue's order, a fixed order on commits (here by id).
WalkReady(r, done) ==
    {c \in WalkList(r) \ done :
        \A d \in WalkList(r) : c \in r.parents[d] => d \in done}

WalkPick(r, done) ==
    CHOOSE c \in WalkReady(r, done) :
        \A d \in WalkReady(r, done) :
            \/ r.ctime[d] < r.ctime[c]
            \/ r.ctime[d] = r.ctime[c] /\ d <= c

\* diff_index_to_workdir: files that differ between index and working tree;
\* a file that is not in the index is not part of this diff.
\* Mutant: only a deleted or retyped file counts, not changed text.
PackageChangedKind(r, file) == r.index # Absent /\ file.kind # r.index.kind

PackageChanged(r, file) == r.index # Absent /\ file # r.index

\* Mutant: the diff of HEAD's tree to the index, blind to the working tree.
FilesChangedStaged(r, file) == 0

FilesChanged(r, file) ==
    (IF r.otherDirty THEN 1 ELSE 0) + (IF PackageChanged(r, file) THEN 1 ELSE 0)

\* Mutant: any branch passes, only a detached HEAD is refused.
OnAnyBranch(r) == r.head # "HEAD"

\* repo.head()?.resolve()?.shorthand() == Some("main")
OnMain(r) == r.head = "main"

\* ------------------------------------------------------------------ state

VARIABLES
    repo,            \* the repository as the tool finds it (never written)
    bump_type,       \* the CLI argument `type`
    overflowChecks,  \* whether the build panics on integer overflow
    pkgFile,         \* package.py in the working directory
    pc,              \* the statement of bumper about to run
    run,             \* which invocation this is
    did,             \* the steps of bumper entered in this invocation
    tagmap,          \* commit id -> tag name
    ti,              \* position of tag_foreach in the tag list
    walked,          \* commits the revwalk has returned
    prev_tag,        \* Option: the commit found by the walk
    versions,        \* Option: the parsed version, the bumped one, both printed
    contents,        \* Option: the text read from package.py
    outcome,         \* how the invocation ended, "" while it runs
    fileAtStart,     \* package.py when the invocation started
    log              \* one record per finished earlier invocation

vars == <<repo, bump_type, overflowChecks, pkgFile, pc, run, did, tagmap, ti,
          walked, prev_tag, versions, contents, outcome, fileAtStart, log>>

env == <<repo, bump_type, overflowChecks>>

\* ------------------------------------------------------ modelled inputs

RefsTags == <<"r", "e", "f", "s", "/", "t", "a", "g", "s", "/">>

ReleasePrefix == RefsTags \o <<"r", "e", "l", "e", "a", "s", "e">>

Dotted(a, b, c) == a \o <<".">> \o b \o <<".">> \o c

TagName(prefix, a, b, c) == prefix \o <<"-">> \o Dotted(a, b, c)

MaxDigits == <<"2", "1", "4", "7", "4", "8", "3", "6", "4", "7">>
OverDigits == <<"2", "1", "4", "7", "4", "8", "3", "6", "4", "8">>

Components ==
    {<<"0">>, <<"1">>, <<"9">>, <<"0", "1">>, MaxDigits, OverDigits}

ShapedNames ==
    {TagName(ReleasePrefix, a, b, c) : a \in Components, b \in Components, c \in Components}

Release123 == TagName(ReleasePrefix, <<"1">>, <<"2">>, <<"3">>)
Release111 == TagName(ReleasePrefix, <<"1">>, <<"1">>, <<"1">>)

OddNames ==
    { RefsTags \o <<"v", "1", ".", "2", ".", "3">>,
      ReleasePrefix \o <<"-", "1", ".", "2">>,
      ReleasePrefix \o <<"-", "1", ".", "2", ".", "x">>,
      ReleasePrefix \o <<"-", "1", ".", "2", ".", ArabicThree>>,
      Release123 \o <<"-", "r", "c">>,
      Release123 \o <<".", "4">>,
      Release123 \o <<"-", "4", ".", "5", ".", "6">> }

\* An annotated tag named name on commit c; tag_foreach gives the full
\* reference name.
Annotated(name, c) == [name |-> name, target |-> c, annotated |-> TRUE, utf8 |-> TRUE]

\* The tag commit c carries in the history-walk repositories.
CommitTag(c) == Annotated(TagName(RefsTags \o <<"v">>, FmtNat(c), <<"0">>, <<"0">>), c)

VersionLine(v) ==
    <<"v", "e", "r", "s", "i", "o", "n", " ", "=", " ", "\"">> \o v \o <<"\"">>

V123 == Dotted(<<"1">>, <<"2">>, <<"3">>)

Files ==
    { VersionLine(V123),
      VersionLine(V123) \o <<" ", "#">> \o V123,
      VersionLine(Dotted(<<"0">>, <<"0">>, <<"1">>)),
      <<"1", ".", "1", ".", "1", ".", "1", ".", "1">>,
      <<"1", "1", ".", "2", ".", "3", "4">>,
      <<>> }

\* C1 <- C2 <- C3 = HEAD.
ChainParents == [c \in 1..3 |-> IF c = 1 THEN {} ELSE {c - 1}]

\* C1 <- C3 = HEAD, with C2 on a side branch off C1.
ForkParents == [c \in 1..3 |-> IF c = 1 THEN {} ELSE {1}]

BaseRepo ==
    [found |-> TRUE, head |-> "main", otherDirty |-> FALSE,
     n |-> 3, parents |-> ChainParents, ctime |-> [c \in 1..3 |-> c],
     tags |-> <<Annotated(Release123, 2)>>,
     index |-> Text(VersionLine(V123)), writable |-> TRUE]

BaseFile == Text(VersionLine(V123))

Input(r, f, b, o) == [repo |-> r, file |-> f, bump |-> b, checks |-> o]

\* Histories: every graph of up to MaxCommits commits, two commit times (that
\* of HEAD, which the walk returns first whatever it is, fixed), any set of
\* commits tagged, and a package.py that names the version of every tag.
Graphs ==
    UNION {
        { [n |-> n, parents |-> p, ctime |-> t] :
            p \in { q \in [1..n -> SUBSET (1..n)] : \A c \in 1..n : q[c] \subseteq 1..(c - 1) },
            t \in { u \in [1..n -> 1..2] : u[n] = 2 } }
        : n \in 1..MaxCommits }

\* The tags of the commits of S, in the order of their names.
RECURSIVE SeqOfSet(_)
SeqOfSet(S) ==
    IF S = {} THEN <<>>
    ELSE LET c == CHOOSE x \in S : \A y \in S : x <= y
         IN  <<CommitTag(c)>> \o SeqOfSet(S \ {c})

RECURSIVE VersionList(_)
VersionList(n) ==
    IF n = 0 THEN <<>>
    ELSE VersionList(n - 1) \o <<" ">> \o Dotted(FmtNat(n), <<"0">>, <<"0">>)

WalkFile == Text(VersionList(MaxCommits))

WalkInputs ==
    UNION {
        { Input([BaseRepo EXCEPT !.n = g.n, !.parents = g.parents, !.ctime = g.ctime,
                                 !.tags = SeqOfSet(T), !.index = WalkFile],
                WalkFile, "minor", TRUE)
          : T \in SUBSET (1..g.n) }
        : g \in Graphs }

\* Tag names: one tag on C2 of the chain, every name, bump and build.
VersionInputs ==
    { Input([BaseRepo EXCEPT !.tags = <<Annotated(nm, 2)>>], BaseFile, b, o)
      : nm \in ShapedNames \cup OddNames \cup {Release123}, b \in BumpTypes, o \in BOOLEAN }

\* Tag lists: lightweight tags, names that are not UTF-8, tags of objects
\* that are not commits (target 0), two tags on one commit in both orders,
\* and tags off the history of HEAD.
Lightweight(name, c) == [Annotated(name, c) EXCEPT !.annotated = FALSE]
NotUtf8(name, c) == [Annotated(name, c) EXCEPT !.utf8 = FALSE]

TagLists ==
    { <<>>,
      <<Lightweight(Release123, 2)>>,
      <<NotUtf8(Release123, 2)>>,
      <<Annotated(Release123, 0)>>,
      <<Annotated(Release123, 2), Annotated(Release111, 2)>>,
      <<Annotated(Release111, 2), Annotated(Release123, 2)>>,
      <<Annotated(Release123, 1), Lightweight(Release111, 3)>>,
      <<Annotated(Release111, 1), Annotated(Release123, 3), NotUtf8(Release111, 3)>>,
      <<Annotated(Release123, 2), Annotated(Release111, 1)>> }

TagInputs ==
    { Input([BaseRepo EXCEPT !.tags = tl, !.parents = p], BaseFile, b, TRUE)
      : tl \in TagLists, p \in {ChainParents, ForkParents}, b \in {"minor", "patch"} }

\* Repository state: found or not, branch, other files changed or not.
StateInputs ==
    { Input([BaseRepo EXCEPT !.found = f, !.head = h, !.otherDirty = d, !.tags = tl],
            BaseFile, "minor", TRUE)
      : f \in BOOLEAN, h \in {"main", "dev", "HEAD"}, d \in BOOLEAN,
        tl \in {<<>>, <<Annotated(Release123, 2)>>,
                <<Annotated(RefsTags \o <<"v", "1">>, 3)>>} }

\* package.py: its content, whether it is in the index, whether it can be
\* written.
FileInputs ==
    { Input([BaseRepo EXCEPT !.tags = <<Annotated(nm, 3)>>, !.index = i, !.writable = w],
            f, b, TRUE)
      : nm \in {Release123, Release111},
        f \in {Text(t) : t \in Files} \cup {Absent, Binary},
        i \in {Absent, BaseFile, Text(<<>>)},
        w \in BOOLEAN, b \in {"minor", "patch"} }

Inputs == WalkInputs \cup VersionInputs \cup TagInputs \cup StateInputs \cup FileInputs

\* ---------------------------------------------------------------- bumper

Init ==
    /\ \E i \in Inputs :
        /\ repo = i.repo
        /\ bump_type = i.bump
        /\ overflowChecks = i.checks
        /\ pkgFile = i.file
        /\ fileAtStart = i.file
    /\ run = 1
    /\ log = <<>>
    /\ pc = "discover"
    /\ did = {}
    /\ tagmap = <<>>
    /\ ti = 1
    /\ walked = {}
    /\ prev_tag = None
    /\ versions = None
    /\ contents = None
    /\ outcome = ""

\* A step ends the invocation with an error or a panic.
Fail(what) ==
    /\ pc' = "done"
    /\ outcome' = what

\* Line 60: Repository::discover(path)?
Discover ==
    /\ pc = "discover"
    /\ did' = did \cup {"discover"}
    /\ IF repo.found THEN pc' = "head" /\ UNCHANGED outcome
       ELSE Fail("RepositoryNotFound")
    /\ UNCHANGED <<env, pkgFile, run, tagmap, ti, walked, prev_tag, versions,
                   contents, fileAtStart, log>>

\* Lines 63-65.
CheckHead ==
    /\ pc = "head"
    /\ did' = did \cup {"head"}
    /\ IF OnMain(repo) THEN pc' = "diff" /\ UNCHANGED outcome
       ELSE Fail("WrongBranch")
    /\ UNCHANGED <<env, pkgFile, run, tagmap, ti, walked, prev_tag, versions,
                   contents, fileAtStart, log>>

\* Lines 67-76.
CheckDiff ==
    /\ pc = "diff"
    /\ did' = did \cup {"diff"}
    /\ IF FilesChanged(repo, pkgFile) > 0 THEN Fail("DirtyWorkingTree")
       ELSE pc' = "tags" /\ UNCHANGED outcome
    /\ UNCHANGED <<env, pkgFile, run, tagmap, ti, walked, prev_tag, versions,
                   contents, fileAtStart, log>>

\* map.insert(target, name): the entry of target is set or overwritten.
Insert(map, k, v) == [x \in DOMAIN map \cup {k} |-> IF x = k THEN v ELSE map[x]]

\* Lines 82-90, the callback of tag_foreach on one tag: a tag that find_tag
\* does not resolve (a lightweight tag) or whose name is not UTF-8 is skipped.
TagCallback(map, t) ==
    IF t.annotated /\ t.utf8 THEN Insert(map, t.target, t.name) ELSE map

\* Lines 79-94: tag_foreach, one tag per step, in the repository's order.
TagForeach ==
    /\ pc = "tags"
    /\ did' = did \cup {"tags"}
    /\ IF ti <= Len(repo.tags)
       THEN /\ tagmap' = TagCallback(tagmap, repo.tags[ti])
            /\ ti' = ti + 1
            /\ UNCHANGED pc
       ELSE /\ pc' = "walk"
            /\ UNCHANGED <<tagmap, ti>>
    /\ UNCHANGED <<env, pkgFile, run, walked, prev_tag, versions, contents,
                   outcome, fileAtStart, log>>

\* Lines 97-105: the revwalk returns commits until one is a key of tagmap or
\* none is left.
WalkNext ==
    /\ pc = "walk"
    /\ did' = did \cup {"walk"}
    /\ IF WalkReady(repo, walked) = {}
       THEN /\ prev_tag' = None
            /\ pc' = "version"
            /\ UNCHANGED walked
       ELSE LET c == WalkPick(repo, walked)
            IN  /\ walked' = walked \cup {c}
                /\ IF c \in DOMAIN tagmap
                   THEN prev_tag' = Some(c) /\ pc' = "version"
                   ELSE UNCHANGED <<prev_tag, pc>>
    /\ UNCHANGED <<env, pkgFile, run, tagmap, ti, versions, contents, outcome,
                   fileAtStart, log>>

\* Lines 108-119.  parse_tag's failures both end in a panic: the unwrap of
\* line 16 when the regex does not match, the unwrap of line 110 on the Err
\* of a group that is no i32.
MakeVersions ==
    /\ pc = "version"
    /\ did' = did \cup {"version"}
    /\ IF prev_tag = None
       THEN Fail("NoPreviousTag") /\ UNCHANGED versions
       ELSE LET p == parse_tag(tagmap[prev_tag[1]])
            IN  IF ~p.ok
                THEN Fail(IF p.why = "NoMatch" THEN "PanicNoMatch" ELSE "PanicParseInt")
                     /\ UNCHANGED versions
                ELSE IF overflowChecks /\ BumpOverflows(p.v, bump_type)
                THEN Fail("PanicOverflow") /\ UNCHANGED versions
                ELSE /\ versions' = Some([version |-> p.v,
                                          next |-> Bumped(p.v, bump_type),
                                          old_version |-> version_str(p.v),
                                          next_version |-> version_str(Bumped(p.v, bump_type))])
                     /\ pc' = "read"
                     /\ UNCHANGED outcome
    /\ UNCHANGED <<env, pkgFile, run, tagmap, ti, walked, prev_tag, contents,
                   fileAtStart, log>>

\* Line 130: read_to_string fails on a missing file and on bytes that are
\* not UTF-8.
ReadFile ==
    /\ pc = "read"
    /\ did' = did \cup {"read"}
    /\ IF pkgFile.kind = "text"
       THEN contents' = Some(pkgFile.text) /\ pc' = "write" /\ UNCHANGED outcome
       ELSE Fail("ReadError") /\ UNCHANGED contents
    /\ UNCHANGED <<env, pkgFile, run, tagmap, ti, walked, prev_tag, versions,
                   fileAtStart, log>>

\* Line 131.
Updated(text, vs) == Replace(text, vs.old_version, vs.next_version)

\* Lines 131-134.  fs::write opens the file truncating it and then writes:
\* when it fails the file is as it was (the open failed) or empty.
WriteFile ==
    /\ pc = "write"
    /\ did' = did \cup {"write"}
    /\ pc' = "done"
    /\ \/ /\ repo.writable
          /\ pkgFile' = Text(Updated(contents[1], versions[1]))
          /\ outcome' = "Ok"
       \/ /\ ~repo.writable
          /\ pkgFile' \in {pkgFile, Text(<<>>)}
          /\ outcome' = "WriteError"
    /\ UNCHANGED <<env, run, tagmap, ti, walked, prev_tag, versions, contents,
                   fileAtStart, log>>

\* The tool is invoked again with the same argument on the repository as the
\* last invocation left it; nothing else touched it in between.
Invoke ==
    /\ pc = "done"
    /\ run < MaxRuns
    /\ run' = run + 1
    /\ log' = Append(log, [outcome |-> outcome, prev_tag |-> prev_tag,
                           versions |-> versions, before |-> fileAtStart,
                           after |-> pkgFile])
    /\ fileAtStart' = pkgFile
    /\ pc' = "discover"
    /\ did' = {}
    /\ tagmap' = <<>>
    /\ ti' = 1
    /\ walked' = {}
    /\ prev_tag' = None
    /\ versions' = None
    /\ contents' = None
    /\ outcome' = ""
    /\ UNCHANGED <<env, pkgFile>>

Next ==
    \/ Discover
    \/ CheckHead
    \/ CheckDiff
    \/ TagForeach
    \/ WalkNext
    \/ MakeVersions
    \/ ReadFile
    \/ WriteFile
    \/ Invoke

Spec == Init /\ [][Next]_vars

\* ------------------------------------------------- reference definitions

\* b = a + 1 over the integers, written so that no intermediate value
\* leaves the range TLC computes in.
IsSucc(a, b) == b > a /\ b - a = 1

\* The name of the tag the walk found.
FoundName == tagmap[prev_tag[1]]

\* MakeVersions has run on a tag whose name parse_tag accepts.
BumpApplied ==
    /\ "version" \in did
    /\ prev_tag # None
    /\ parse_tag(FoundName).ok

\* a is d or an ancestor of d.
RECURSIVE IsAncestor(_, _, _)
IsAncestor(r, a, d) ==
    \/ a = d
    \/ \E q \in r.parents[d] : IsAncestor(r, a, q)

\* Commits in the history of HEAD that have an entry in the Tag Index.
TaggedAncestors == {c \in 1..repo.n : c \in DOMAIN tagmap /\ IsAncestor(repo, c, repo.n)}

\* The walk has ended.
WalkDone == pc \in {"version", "read", "write"} \/ "version" \in did

\* name = <prefix>-A.B.C with A, B, C non-empty runs of ASCII digits, read
\* from the end of the name: the positions of the hyphen and the two dots.
IsDigits(s, from, to) ==
    from <= to /\ \A k \in from..to : IsAsciiDigit(s[k])

ShapeOf(name) ==
    LET hyphens == {h \in 1..Len(name) : name[h] = "-"}
        dots    == {i \in 1..Len(name) : name[i] = "."}
    IN  { p \in hyphens \X dots \X dots :
            /\ p[1] < p[2] /\ p[2] < p[3]
            /\ IsDigits(name, p[1] + 1, p[2] - 1)
            /\ IsDigits(name, p[2] + 1, p[3] - 1)
            /\ IsDigits(name, p[3] + 1, Len(name)) }

Shaped(name) == ShapeOf(name) # {}

\* The text MAJOR.MINOR.PATCH of a shaped name.
Suffix(name) ==
    LET p == CHOOSE q \in ShapeOf(name) : TRUE
    IN  SubSeq(name, p[1] + 1, Len(name))

\* A digit run that is the decimal numeral of an i32: no leading zero
\* (except "0" itself) and at most 2147483647, compared digit by digit.
RECURSIVE DigitsLeq(_, _, _)
DigitsLeq(a, b, k) ==
    \/ k > Len(a)
    \/ DigitVal(a[k]) < DigitVal(b[k])
    \/ a[k] = b[k] /\ DigitsLeq(a, b, k + 1)

IsI32Numeral(ds) ==
    /\ Len(ds) = 1 \/ ds[1] # "0"
    /\ \/ Len(ds) < Len(MaxDigits)
       \/ Len(ds) = Len(MaxDigits) /\ DigitsLeq(ds, MaxDigits, 1)

Canonical(name) ==
    /\ Shaped(name)
    /\ LET p == CHOOSE q \in ShapeOf(name) : TRUE
       IN  /\ IsI32Numeral(SubSeq(name, p[1] + 1, p[2] - 1))
           /\ IsI32Numeral(SubSeq(name, p[2] + 1, p[3] - 1))
           /\ IsI32Numeral(SubSeq(name, p[3] + 1, Len(name)))

\* Literal replacement stated by positions: the occurrences of from in s,
\* those chosen left to right without overlap, and the text that results.
Occurrences(s, from) ==
    {i \in 1..Len(s) :
        /\ i + Len(from) - 1 <= Len(s)
        /\ \A k \in 1..Len(from) : s[i + k - 1] = from[k]}

ChosenOccurrences(s, from) ==
    CHOOSE S \in SUBSET Occurrences(s, from) :
        /\ \A i \in S : \A j \in S : i < j => i + Len(from) <= j
        /\ \A j \in Occurrences(s, from) \ S : \E i \in S : i < j /\ j < i + Len(from)

RECURSIVE Pieces(_, _, _, _, _)
Pieces(s, S, from, to, p) ==
    IF p > Len(s) THEN <<>>
    ELSE (IF p \in S THEN to
          ELSE IF \E i \in S : i < p /\ p < i + Len(from) THEN <<>>
          ELSE <<s[p]>>) \o Pieces(s, S, from, to, p + 1)

Substituted(s, from, to) == Pieces(s, ChosenOccurrences(s, from), from, to, 1)

PanicOutcomes == {"PanicNoMatch", "PanicParseInt", "PanicOverflow"}

\* ----------------------------------------------------------------- claims

\* C1: for every parsed Version V and every bump kind the bump yields the
\* reference value, major -> (V.major+1, 0, 0), minor -> (V.major,
\* V.minor+1, 0), patch -> (V.major, V.minor, V.patch+1), V itself being
\* what parse_tag returned.
C1_BumpIsReference ==
    BumpApplied =>
        /\ versions # None
        /\ LET V == versions[1].version
               N == versions[1].next
           IN  /\ V = parse_tag(FoundName).v
               /\ CASE bump_type = "major" ->
                        IsSucc(V.major, N.major) /\ N.minor = 0 /\ N.patch = 0
                    [] bump_type = "minor" ->
                        N.major = V.major /\ IsSucc(V.minor, N.minor) /\ N.patch = 0
                    [] bump_type = "patch" ->
                        N.major = V.major /\ N.minor = V.minor /\ IsSucc(V.patch, N.patch)

\* The steps that come before the write of package.py.
StepsBeforeWrite == {"discover", "head", "diff", "tags", "walk", "version", "read"}

\* What makes an invocation fail before its write, read off the repository
\* and the file as the invocation found them.
StartsBroken ==
    \/ ~repo.found
    \/ repo.head # "main"
    \/ repo.otherDirty
    \/ repo.index # Absent /\ fileAtStart # repo.index
    \/ fileAtStart.kind # "text"

\* C2: an invocation that fails (repository not found, wrong branch, dirty
\* tree, no previous tag, malformed tag, unreadable file) leaves package.py
\* as it found it; package.py changes only once every earlier step has run
\* and succeeded.
C2_FailureLeavesFile ==
    /\ outcome \in {"RepositoryNotFound", "WrongBranch", "DirtyWorkingTree",
                    "NoPreviousTag", "ReadError"} \cup PanicOutcomes
            => pkgFile = fileAtStart
    /\ StartsBroken => pkgFile = fileAtStart
    /\ pkgFile # fileAtStart =>
            /\ StepsBeforeWrite \subseteq did
            /\ "write" \in did
            /\ prev_tag # None /\ versions # None /\ contents # None

C2_Witness ==
    /\ pc = "done"
    /\ outcome = "ReadError"
    /\ fileAtStart = Binary
    /\ pkgFile = fileAtStart

\* C3: when the name of the tag found does not match the pattern, or a
\* group is no i32, the invocation ends with an error value (not a panic)
\* and package.py is not written.
C3_MalformedTagIsError ==
    ("version" \in did /\ prev_tag # None /\ ~parse_tag(FoundName).ok) =>
        /\ outcome \notin PanicOutcomes \cup {"", "Ok"}
        /\ pkgFile = fileAtStart

\* C4 as stated: for every tag name <prefix>-MAJOR.MINOR.PATCH made of digit
\* runs, parsing and then formatting gives back the text MAJOR.MINOR.PATCH.
C4_RoundTripAnyDigits ==
    ("version" \in did /\ prev_tag # None /\ Shaped(FoundName)) =>
        IF versions # None THEN versions[1].old_version = Suffix(FoundName)
        ELSE outcome = "PanicOverflow"

\* C4 amended: the same, for names whose three digit runs are numerals of
\* an i32 without leading zeros.  (An invocation that panics on the bump's
\* overflow never prints the version.)
C4_RoundTripCanonical ==
    ("version" \in did /\ prev_tag # None /\ Canonical(FoundName)) =>
        IF versions # None THEN versions[1].old_version = Suffix(FoundName)
        ELSE outcome = "PanicOverflow"

C4_Witness ==
    /\ versions # None
    /\ FoundName = TagName(ReleasePrefix, MaxDigits, <<"9">>, <<"0">>)
    /\ versions[1].old_version = Dotted(MaxDigits, <<"9">>, <<"0">>)

C6_NoTagNoFileAccess ==
    ("version" \in did /\ TaggedAncestors = {}) =>
        /\ outcome = "NoPreviousTag"
        /\ pc = "done"
        /\ did \cap {"read", "write"} = {}
        /\ contents = None
        /\ pkgFile = fileAtStart

C6_Witness ==
    /\ outcome = "NoPreviousTag"
    /\ DOMAIN tagmap # {}
    /\ walked = {1, 3}

\* C7: when HEAD is detached or on a branch other than main, the invocation
\* fails with WrongBranch and the diff, the tag enumeration, the walk, the
\* version computation and the file access do not take place, whatever the
\* state of the working tree and of the tags.
C7_WrongBranchFirst ==
    (repo.found /\ repo.head # "main") =>
        /\ did \subseteq {"discover", "head"}
        /\ "head" \in did => pc = "done" /\ outcome = "WrongBranch"
        /\ tagmap = <<>> /\ walked = {} /\ versions = None /\ contents = None
        /\ pkgFile = fileAtStart

C7_Witness ==
    /\ outcome = "WrongBranch"
    /\ repo.head = "HEAD"
    /\ repo.otherDirty
    /\ repo.tags = <<>>

\* The invocation before this one.
Last == log[Len(log)]

\* C8 as stated: a second invocation after a successful one, with nothing
\* else done to the repository, finds the same previous tag and computes the
\* same old and new versions.
C8_SecondRunSame ==
    (run > 1 /\ pc = "done" /\ Last.outcome = "Ok") =>
        /\ prev_tag = Last.prev_tag
        /\ versions = Last.versions

\* C8 amended: the second invocation fails with DirtyWorkingTree, before any
\* tag is looked at, when the first one changed a package.py that is in the
\* index; otherwise it finds the same previous tag and computes the same old
\* and new versions.
C8_SecondRunDirtyOrSame ==
    (run > 1 /\ pc = "done" /\ Last.outcome = "Ok") =>
        IF repo.index # Absent /\ Last.after # Last.before
        THEN /\ outcome = "DirtyWorkingTree"
             /\ did = {"discover", "head", "diff"}
             /\ prev_tag = None /\ versions = None
        ELSE /\ prev_tag = Last.prev_tag
             /\ versions = Last.versions

C8_Witness ==
    /\ run = 2 /\ pc = "done"
    /\ Last.outcome = "Ok"
    /\ Last.versions[1].next_version = Dotted(<<"1">>, <<"3">>, <<"0">>)
    /\ outcome = "DirtyWorkingTree"

\* C9: after a successful invocation package.py holds the text read with
\* every left-to-right, non-overlapping occurrence of the old version
\* replaced by the new one and every other character kept in place;
\* version = "1.2.3" with 1.2.3 -> 1.3.0 becomes version = "1.3.0".
C9_LiteralSubstitution ==
    outcome = "Ok" =>
        /\ pkgFile = Text(Substituted(contents[1], versions[1].old_version,
                                      versions[1].next_version))
        /\ ( /\ contents[1] = VersionLine(V123)
             /\ versions[1].old_version = V123
             /\ versions[1].next_version = Dotted(<<"1">>, <<"3">>, <<"0">>) )
           => pkgFile = Text(VersionLine(Dotted(<<"1">>, <<"3">>, <<"0">>)))

C9_Witness ==
    /\ outcome = "Ok"
    /\ contents = Some(VersionLine(V123) \o <<" ", "#">> \o V123)
    /\ versions[1].old_version = V123
    /\ pkgFile = Text(VersionLine(Dotted(<<"1">>, <<"2">>, <<"4">>))
                      \o <<" ", "#">> \o Dotted(<<"1">>, <<"2">>, <<"4">>))

\* C10: every Version of an invocation, parsed or bumped, has three
\* non-negative components, also when the bumped component of the parsed
\* one is 2147483647: the bumped component is then that plus one.
C10_ComponentsNonNegative ==
    /\ versions # None =>
            \A v \in {versions[1].version, versions[1].next} :
                v.major >= 0 /\ v.minor >= 0 /\ v.patch >= 0
    /\ (BumpApplied /\ BumpedField(parse_tag(FoundName).v, bump_type) = I32Max) =>
            /\ versions # None
            /\ IsSucc(I32Max, BumpedField(versions[1].next, bump_type))

====
